---- MODULE Spec2Model ----
(***************************************************************************)
(* Drawing-canvas engine of the whiteboard (src/src/components/            *)
(* Whiteboard.tsx): element list, tool dispatcher, hit-testing, undo/redo  *)
(* history, layers, autosave, load and the draw-event subscription, as one *)
(* state machine.  Every React event handler is one action; it reads the   *)
(* state of the render it was created in and all its setState calls take   *)
(* effect together.                                                        *)
(*                                                                         *)
(* JavaScript arrays are 0-based, TLA+ sequences 1-based: history[k] of    *)
(* the source is history[k + 1] here, historyStep keeps the source value.  *)
(* Optional fields of DrawElement are record fields that may be absent.    *)
(* Ids (Date.now().toString()) are only ever compared for equality; they   *)
(* are positive integers here, a new one being the least integer no        *)
(* element, snapshot or selection refers to.  0 stands for the falsy       *)
(* values null / undefined / ''.                                           *)
(* The image import (handleImageUpload) ends in the onload callback of the *)
(* decoded file, which works on the state of the render that started it.   *)
(*                                                                         *)
(* The external store and the broadcast topic are part of the state: the   *)
(* document record, the updates and selects on their way, and the draw     *)
(* events on their way to this client and to a second client of the same   *)
(* document, of which only the canvas is kept.  Each await splits a        *)
(* handler in two actions, before and after the answer.                    *)
(***************************************************************************)
EXTENDS Integers, Sequences, FiniteSets, TLC

VARIABLES
    tool,             \* active tool identifier
    isDrawing,        \* a gesture is in progress
    elements,         \* Canvas State
    currentElement,   \* in-progress element: <<>> (null) or <<el>>
    history,          \* snapshots
    historyStep,      \* history cursor
    selectedElement,  \* selected id, 0 = null
    dragOffset,       \* cursor - origin captured at pointer-down
    resizeHandle,     \* id whose resize handle is grabbed, 0 = null
    currentLayer,     \* active layer index
    layers,           \* layer names
    whiteboardName,   \* document title
    user,             \* signed-in user of useAuth(), 0 = null
    loads,            \* loadWhiteboard calls awaiting their reply
    writes,           \* saveWhiteboard updates on their way to the store
    store,            \* the document record of the external store
    inbox,            \* draw broadcasts on their way to this client
    peerInbox,        \* draw broadcasts on their way to the other client
    peerElements,     \* Canvas State of the other client
    mounted,          \* the component is mounted
    peerWrites,       \* saveWhiteboard updates of the other client on their way
    imports,          \* image imports whose file is being read and decoded
    trail,            \* observation: commits, then undos, then redos since start
    branch            \* observation: undo that moved the cursor, then a commit

canvasVars == <<elements, history, historyStep>>
gestureVars == <<tool, isDrawing, currentElement, selectedElement, dragOffset, resizeHandle>>
layerVars == <<currentLayer, layers>>
uiVars == <<canvasVars, gestureVars, layerVars>>
persistVars == <<whiteboardName, user, loads, writes, store>>
syncVars == <<inbox, peerInbox, peerElements>>
tabVars == <<mounted, peerWrites, imports>>
envVars == <<persistVars, syncVars, tabVars>>
obsVars == <<trail, branch>>
vars == <<tool, isDrawing, elements, currentElement, history, historyStep,
          selectedElement, dragOffset, resizeHandle, currentLayer, layers,
          whiteboardName, user, loads, writes, store,
          inbox, peerInbox, peerElements, mounted, peerWrites, imports,
          trail, branch>>

----------------------------------------------------------------------------
(* Bounds of the exploration *)

MaxElements == 2
MaxHistory == 2
MaxLayers == 2
MaxPoints == 1
MaxInFlight == 1

(* Program constants *)

MinSize == 50
HandleSize == 16
StickySize == 200
TextFontSize == 24
TemplateStickySize == 230

(* Inputs *)

Points == {<<0, 100>>, <<100, 100>>, <<310, 310>>}
ToolChoices == {"select", "pen", "rectangle", "text", "sticky"}
\* window.prompt(): <<>> is null (cancelled), <<s>> the string s
PromptAnswers == {<<>>, <<"">>, <<"note">>}
Titles == {"Plan"}
Users == {0, 1}
\* pixel sizes of the files offered to the import
ImageSizes == {<<800, 400>>}
LayerNames == {"Renamed"}

SHAPES == {"rectangle", "circle", "triangle", "star", "pentagon", "hexagon", "arrow", "line"}

InitialColor == "#000000"
InitialStrokeWidth == 3
InitialName == "Untitled Whiteboard"

\* useParams(): the document id of the route, present on every route that
\* renders the component
routeId == 1

----------------------------------------------------------------------------
(* JavaScript helpers *)

Max(a, b) == IF a >= b THEN a ELSE b
Min(a, b) == IF a <= b THEN a ELSE b

\* arr.slice(0, n)
SliceTo(arr, n) == SubSeq(arr, 1, Min(n, Len(arr)))

\* arr[i] || []
EntryOrEmpty(arr, i) == IF i + 1 \in DOMAIN arr THEN arr[i + 1] ELSE <<>>

\* if (text): the prompt returned a non-empty string
PromptAcceptedNonNull(answer) == answer # <<>>
PromptAccepted(answer) == answer # <<>> /\ answer[1] # ""

\* text || ''
TextOrEmpty(answer) == IF PromptAccepted(answer) THEN answer[1] ELSE ""

\* [...arr, el]
PrependElement(arr, el) == <<el>> \o arr
AppendElement(arr, el) == Append(arr, el)

\* el.f || 0
NumOr0(el, f) == IF f \in DOMAIN el THEN el[f] ELSE 0

\* !el.f for a numeric field
Falsy(el, f) == f \notin DOMAIN el \/ el[f] = 0

\* el.id || ''
IdOf(el) == NumOr0(el, "id")

\* el.layer || 0
LayerOf(el) == NumOr0(el, "layer")

----------------------------------------------------------------------------
(* History Manager *)

PushHistoryKeepTail(hist, step, snapshot) == Append(hist, snapshot)

\* [...history.slice(0, historyStep + 1), newElements]
PushHistory(hist, step, snapshot) == Append(SliceTo(hist, step + 1), snapshot)

\* handleUndo: the snapshot shown after the cursor moved back
UndoTarget(hist, step) == EntryOrEmpty(hist, step - 1)

\* handleRedo: the guard and the snapshot shown after the cursor advanced
CanRedoOffByOne(hist, step) == step < Len(hist)
CanRedo(hist, step) == step < Len(hist) - 1
RedoTarget(hist, step) == EntryOrEmpty(hist, step + 1)

----------------------------------------------------------------------------
(* Element construction *)

TextElement(id, text, x, y, layer) ==
    [type |-> "text", id |-> id, text |-> text, x |-> x, y |-> y,
     color |-> InitialColor, fontSize |-> TextFontSize, layer |-> layer]

StickyElement(id, text, x, y, layer) ==
    [type |-> "sticky", id |-> id, text |-> text, x |-> x, y |-> y,
     width |-> StickySize, height |-> StickySize, layer |-> layer]

\* the file as a data URL (FileReader.readAsDataURL)
ImageData == "data:image/png;base64"
ImageOrigin == 100
MaxImageSize == 400

\* ratio = Math.min(maxWidth / width, maxHeight / height), for sizes the
\* ratio scales to integers
ScaleToFit(w, h) ==
    IF w > MaxImageSize \/ h > MaxImageSize
    THEN IF w >= h THEN <<MaxImageSize, (h * MaxImageSize) \div w>>
                   ELSE <<(w * MaxImageSize) \div h, MaxImageSize>>
    ELSE <<w, h>>

ImageElement(id, w, h, layer) ==
    [type |-> "image", id |-> id, imageData |-> ImageData,
     x |-> ImageOrigin, y |-> ImageOrigin,
     width |-> ScaleToFit(w, h)[1], height |-> ScaleToFit(w, h)[2], layer |-> layer]

StrokeElement(t, x, y, layer) ==
    [type |-> "line", points |-> <<<<x, y>>>>,
     color |-> IF t = "eraser" THEN "#ffffff" ELSE InitialColor,
     strokeWidth |-> IF t = "eraser" THEN InitialStrokeWidth * 3 ELSE InitialStrokeWidth,
     layer |-> layer]

ShapeElement(t, x, y, layer) ==
    [type |-> "shape", shapeType |-> t, startX |-> x, startY |-> y,
     endX |-> x, endY |-> y, color |-> InitialColor,
     strokeWidth |-> InitialStrokeWidth, layer |-> layer]

\* { ...el, f1: v1, f2: v2 }
With2(el, f1, v1, f2, v2) ==
    [f \in DOMAIN el \cup {f1, f2} |->
        IF f = f1 THEN v1 ELSE IF f = f2 THEN v2 ELSE el[f]]

\* { ...el, layer: v }
WithLayer(el, v) == [f \in DOMAIN el \cup {"layer"} |-> IF f = "layer" THEN v ELSE el[f]]

\* the first template, reduced to one shape and one sticky note
TemplateElements(t) ==
    << [type |-> "shape", id |-> t + 1, shapeType |-> "rectangle",
        startX |-> 40, startY |-> 25, endX |-> 960, endY |-> 135,
        color |-> "#1E3A8A", strokeWidth |-> 0, layer |-> 0],
       [type |-> "sticky", id |-> t, text |-> "IDEA #1", x |-> 80, y |-> 230,
        width |-> TemplateStickySize, height |-> TemplateStickySize, layer |-> 0] >>

----------------------------------------------------------------------------
(* Hit-Tester *)

isPointInImage(x, y, el) ==
    IF Falsy(el, "x") \/ Falsy(el, "y") \/ Falsy(el, "width") \/ Falsy(el, "height")
    THEN FALSE
    ELSE /\ x >= el.x /\ x <= el.x + el.width
         /\ y >= el.y /\ y <= el.y + el.height

isPointInResizeHandle(x, y, el) ==
    IF Falsy(el, "x") \/ Falsy(el, "y") \/ Falsy(el, "width") \/ Falsy(el, "height")
    THEN FALSE
    ELSE /\ x >= el.x + el.width - HandleSize /\ x <= el.x + el.width + HandleSize
         /\ y >= el.y + el.height - HandleSize /\ y <= el.y + el.height + HandleSize

SelectableAnyLayer(els, layer) ==
    SelectSeq(els, LAMBDA el : el.type \in {"image", "sticky"})

\* elements.filter(el => (image || sticky) && (el.layer || 0) === currentLayer)
Selectable(els, layer) ==
    SelectSeq(els, LAMBDA el : el.type \in {"image", "sticky"} /\ LayerOf(el) = layer)

\* .reverse().find(...): index in cands of the last candidate that is hit, 0 if none
HitIndex(cands, x, y) ==
    LET hits == {i \in 1..Len(cands) :
                    isPointInResizeHandle(x, y, cands[i]) \/ isPointInImage(x, y, cands[i])}
    IN IF hits = {} THEN 0 ELSE CHOOSE i \in hits : \A j \in hits : j <= i

----------------------------------------------------------------------------
(* Renderer *)

\* elements.filter(el => (el.layer || 0) === currentLayer)
VisibleElements(els, layer) == SelectSeq(els, LAMBDA el : LayerOf(el) = layer)

\* [...visibleElements, ...(currentElement ? [currentElement] : [])]
PaintList(els, layer, cur) == VisibleElements(els, layer) \o cur

\* a string field that is undefined or ''
NoText(el, f) == f \notin DOMAIN el \/ el[f] = ""

\* the branches of the forEach body that paint before the body returns
PaintedInPass(el) ==
    \/ el.type = "line" /\ "points" \in DOMAIN el
    \/ el.type = "shape"
    \/ el.type = "text" /\ ~NoText(el, "text")
    \/ el.type = "sticky"

\* the image branch: the body sets img.onload and img.src, drawImage runs
\* in the callback
PaintedOnLoad(el) == el.type = "image" /\ ~NoText(el, "imageData")

Painted(el) == PaintedInPass(el) \/ PaintedOnLoad(el)

\* the orders in which one redraw can paint: the synchronous pass in list
\* order, then the onload callbacks of its images in the order the rasters
\* finish decoding
PaintOrders(els, layer, cur) ==
    LET list == PaintList(els, layer, cur)
        pass == SelectSeq(list, PaintedInPass)
        imgs == SelectSeq(list, PaintedOnLoad)
    IN  {pass \o [i \in 1..Len(imgs) |-> imgs[f[i]]] :
             f \in Permutations(1..Len(imgs))}

----------------------------------------------------------------------------
(* Selection transform *)

ClampSizeNoFloor(cursor, origin) == Max(0, cursor - origin)

\* Math.max(50, cursor - origin)
ClampSize(cursor, origin) == Max(MinSize, cursor - origin)

ResizeSelected(els, sel, x, y) ==
    [i \in 1..Len(els) |->
        IF IdOf(els[i]) = sel /\ "id" \in DOMAIN els[i]
        THEN With2(els[i], "width", ClampSize(x, NumOr0(els[i], "x")),
                           "height", ClampSize(y, NumOr0(els[i], "y")))
        ELSE els[i]]

MoveSelected(els, sel, x, y, off) ==
    [i \in 1..Len(els) |->
        IF IdOf(els[i]) = sel /\ "id" \in DOMAIN els[i]
        THEN With2(els[i], "x", x - off[1], "y", y - off[2])
        ELSE els[i]]

----------------------------------------------------------------------------
(* Layer Manager *)

\* `Layer ${layers.length + 1}`
NewLayerName(n) == "Layer " \o ToString(n)

IsLastLayerNever(ls) == Len(ls) = 0

\* layers.length === 1
IsLastLayer(ls) == Len(ls) = 1

\* layers.filter((_, i) => i !== index)
RemoveAt(ls, index) ==
    [i \in 1..(Len(ls) - (IF index + 1 \in DOMAIN ls THEN 1 ELSE 0)) |->
        IF i <= index THEN ls[i] ELSE ls[i + 1]]

DropLayerAndAbove(els, index) == SelectSeq(els, LAMBDA el : LayerOf(el) < index)

\* elements.filter(el => (el.layer || 0) !== index)
DropLayer(els, index) == SelectSeq(els, LAMBDA el : LayerOf(el) # index)

ActiveAfterDeleteStrict(cur, newLayers) ==
    IF cur > Len(newLayers) THEN Len(newLayers) - 1 ELSE cur

\* if (currentLayer >= newLayers.length) setCurrentLayer(newLayers.length - 1)
ActiveAfterDelete(cur, newLayers) ==
    IF cur >= Len(newLayers) THEN Len(newLayers) - 1 ELSE cur

\* swap of the names at indices a and b
SwapNames(ls, a, b) ==
    [i \in 1..Len(ls) |-> IF i = a + 1 THEN ls[b + 1] ELSE IF i = b + 1 THEN ls[a + 1] ELSE ls[i]]

SwapTagsOneWay(els, a, b) ==
    [i \in 1..Len(els) |->
        IF LayerOf(els[i]) = a THEN WithLayer(els[i], b) ELSE els[i]]

\* re-tagging of the elements of the two swapped layers
SwapTags(els, a, b) ==
    [i \in 1..Len(els) |->
        IF LayerOf(els[i]) = a THEN WithLayer(els[i], b)
        ELSE IF LayerOf(els[i]) = b THEN WithLayer(els[i], a)
        ELSE els[i]]

----------------------------------------------------------------------------
(* Persistence Adapter: the document record and the JSON of canvas_data.   *)
(* A JSON object is the set of its members <<key, value>>, a JSON value is *)
(* <<"string", s>>, <<"number", n>> or <<"array", seq>>.                   *)

StringFields == {"type", "id", "text", "color", "shapeType", "imageData"}

\* the value of the member k of a JSON object
Member(obj, k) == (CHOOSE m \in obj : m[1] = k)[2]

\* JSON value written for the field f holding v; points are {x, y} objects
JsonOfField(f, v) ==
    IF f = "points"
    THEN <<"array", [i \in 1..Len(v) |->
                        {<<"x", <<"number", v[i][1]>>>>, <<"y", <<"number", v[i][2]>>>>}]>>
    ELSE IF f \in StringFields THEN <<"string", v>>
    ELSE <<"number", v>>

\* value read back for the field f from the JSON value j
FieldOfJson(f, j) ==
    IF f = "points"
    THEN [i \in 1..Len(j[2]) |-> <<Member(j[2][i], "x")[2], Member(j[2][i], "y")[2]>>]
    ELSE j[2]

JsonOfElementNoLayer(el) == {<<f, JsonOfField(f, el[f])>> : f \in DOMAIN el \ {"layer"}}

\* one member per own field of the element
JsonOfElement(el) == {<<f, JsonOfField(f, el[f])>> : f \in DOMAIN el}

ElementOfJson(obj) == [f \in {m[1] : m \in obj} |-> FieldOfJson(f, Member(obj, f))]

\* canvas_data: { elements } on the way out, data.canvas_data.elements on the way in
JsonOfElements(els) == [i \in 1..Len(els) |-> JsonOfElement(els[i])]
ElementsOfJson(arr) == [i \in 1..Len(arr) |-> ElementOfJson(arr[i])]

\* the record the dashboard creates: canvas is <<>> for canvas_data {} and
\* <<arr>> for canvas_data { elements: arr }; saved observes the Canvas
\* State the record was written from
NewDocument == [name |-> InitialName, canvas |-> <<>>, saved |-> <<>>]

\* the update saveWhiteboard sends
SaveRequest(name, els) ==
    [name |-> name, canvas |-> <<JsonOfElements(els)>>, saved |-> els]

\* a loadWhiteboard call: sent, then answered with the record or an error
LoadSent == <<"sent">>
LoadData(record) == <<"data", record>>
LoadError == <<"error">>
LoadNone == <<"none">>

\* if (data.canvas_data && data.canvas_data.elements) setElements(...)
LoadedElementsOrEmpty(record, current) ==
    IF record.canvas # <<>> THEN ElementsOfJson(record.canvas[1]) ELSE <<>>
LoadedElements(record, current) ==
    IF record.canvas # <<>> THEN ElementsOfJson(record.canvas[1]) ELSE current

\* update({name, canvas_data, updated_at}).eq('id', id): the columns are
\* replaced by the values of the request
ApplyUpdateMerged(record, write) ==
    [name |-> write.name,
     canvas |-> IF record.canvas # <<>> /\ write.canvas # <<>>
                THEN <<record.canvas[1] \o write.canvas[1]>> ELSE write.canvas,
     saved |-> record.saved \o write.saved]
ApplyUpdate(record, write) == write

\* arr without its i-th entry
Without(arr, i) == SubSeq(arr, 1, i - 1) \o SubSeq(arr, i + 1, Len(arr))

----------------------------------------------------------------------------
(* Sync Bridge *)

ApplyRemoteDeduplicated(prev, payload) ==
    IF \E k \in 1..Len(prev) : IdOf(prev[k]) # 0 /\ IdOf(prev[k]) = IdOf(payload)
    THEN prev ELSE Append(prev, payload)

\* [...prevElements, payload.payload]
ApplyRemote(prev, payload) == Append(prev, payload)

----------------------------------------------------------------------------
(* Date.now(): an id that differs from every id the session still holds *)

IdsIn(els) == {IdOf(els[i]) : i \in 1..Len(els)}

UsedIds ==
    IdsIn(elements) \cup IdsIn(currentElement)
        \cup UNION {IdsIn(history[i]) : i \in 1..Len(history)}
        \cup {selectedElement, resizeHandle, 0}

DateNow == CHOOSE n \in 1..(Cardinality(UsedIds) + 1) :
              /\ n \notin UsedIds
              /\ \A m \in 1..(n - 1) : m \in UsedIds

----------------------------------------------------------------------------
(* Observation of the run.  trail: how far the run is a run of commits,    *)
(* then undos, then redos.  branch: an undo that moved the cursor          *)
(* ("undone"), then a commit ("committed"), then only redos ("redone").    *)

TrailStart == [phase |-> "commits", commits |-> 0, undos |-> 0, redos |-> 0, final |-> <<>>]
TrailOff == [TrailStart EXCEPT !.phase = "off"]

TrailAfter(kind) ==
    IF kind = "commit" THEN
        IF trail.phase = "commits"
        THEN [trail EXCEPT !.commits = @ + 1, !.final = elements']
        ELSE TrailOff
    ELSE IF kind = "undo" THEN
        IF trail.phase = "commits" /\ trail.commits >= 1
        THEN [trail EXCEPT !.phase = "undos", !.undos = 1]
        ELSE IF trail.phase = "undos" /\ trail.undos < trail.commits
        THEN [trail EXCEPT !.undos = @ + 1]
        ELSE TrailOff
    ELSE IF kind = "redo" THEN
        IF trail.phase = "undos" /\ trail.undos = trail.commits
        THEN [trail EXCEPT !.phase = "redos", !.redos = 1]
        ELSE IF trail.phase = "redos" /\ trail.redos < trail.commits
        THEN [trail EXCEPT !.redos = @ + 1]
        ELSE TrailOff
    ELSE IF kind = "other" /\ canvasVars' = canvasVars THEN trail
    ELSE TrailOff

BranchAfter(kind) ==
    IF kind = "undo" THEN
        IF historyStep' # historyStep THEN "undone" ELSE branch
    ELSE IF kind = "commit" THEN
        IF branch = "undone" THEN "committed" ELSE "none"
    ELSE IF kind = "redo" THEN
        IF branch \in {"committed", "redone"} THEN "redone" ELSE "none"
    ELSE IF kind = "other" /\ canvasVars' = canvasVars THEN branch
    ELSE "none"

Observe(kind) ==
    /\ trail' = TrailAfter(kind)
    /\ branch' = BranchAfter(kind)

----------------------------------------------------------------------------
(* State after construction: the useState initial values, and the load the *)
(* mount effect has sent                                                   *)

Init ==
    /\ tool = "pen"
    /\ isDrawing = FALSE
    /\ elements = <<>>
    /\ currentElement = <<>>
    /\ history = <<>>
    /\ historyStep = 0
    /\ selectedElement = 0
    /\ dragOffset = <<0, 0>>
    /\ resizeHandle = 0
    /\ currentLayer = 0
    /\ layers = <<"Layer 1">>
    /\ whiteboardName = InitialName
    /\ user = 1
    /\ loads = <<LoadSent>>
    /\ writes = <<>>
    /\ store = NewDocument
    /\ inbox = <<>>
    /\ peerInbox = <<>>
    /\ peerElements = <<>>
    /\ mounted = TRUE
    /\ peerWrites = <<>>
    /\ imports = <<>>
    /\ trail = TrailStart
    /\ branch = "none"

----------------------------------------------------------------------------
(* Tool Dispatcher *)

\* room left for one more snapshot after the ones up to the cursor
CanPush == Min(Len(history), historyStep + 1) < MaxHistory

\* room left for one more element and one more snapshot
CanCommit == Len(elements) < MaxElements /\ CanPush

\* setElements(newElements); setHistory([...]); setHistoryStep(historyStep + 1)
Commit(newElements) ==
    /\ elements' = newElements
    /\ history' = PushHistory(history, historyStep, newElements)
    /\ historyStep' = historyStep + 1

SetTool(t) ==
    /\ mounted
    /\ tool' = t
    /\ UNCHANGED <<isDrawing, currentElement, selectedElement, dragOffset, resizeHandle>>
    /\ UNCHANGED canvasVars
    /\ UNCHANGED layerVars
    /\ UNCHANGED envVars
    /\ Observe("other")

MouseDownSelect(x, y) ==
    /\ mounted
    /\ tool = "select"
    /\ LET cands == Selectable(elements, currentLayer)
           k == HitIndex(cands, x, y)
       IN IF k # 0
          THEN /\ selectedElement' = IdOf(cands[k])
               /\ resizeHandle' = IF isPointInResizeHandle(x, y, cands[k])
                                  THEN IdOf(cands[k]) ELSE resizeHandle
               /\ dragOffset' = IF resizeHandle = 0
                                THEN <<x - NumOr0(cands[k], "x"), y - NumOr0(cands[k], "y")>>
                                ELSE dragOffset
               /\ isDrawing' = TRUE
          ELSE /\ selectedElement' = 0
               /\ UNCHANGED <<resizeHandle, dragOffset, isDrawing>>
    /\ UNCHANGED <<tool, currentElement>>
    /\ UNCHANGED canvasVars
    /\ UNCHANGED layerVars
    /\ UNCHANGED envVars
    /\ Observe("other")

MouseDownText(x, y, answer) ==
    /\ mounted
    /\ tool = "text"
    /\ IF PromptAccepted(answer)
       THEN /\ CanCommit
            /\ Commit(AppendElement(elements, TextElement(DateNow, answer[1], x, y, currentLayer)))
            /\ UNCHANGED gestureVars
            /\ UNCHANGED layerVars
            /\ UNCHANGED envVars
            /\ Observe("commit")
       ELSE /\ UNCHANGED canvasVars
            /\ UNCHANGED gestureVars
            /\ UNCHANGED layerVars
            /\ UNCHANGED envVars
            /\ Observe("other")

MouseDownSticky(x, y, answer) ==
    /\ mounted
    /\ tool = "sticky"
    /\ CanCommit
    /\ Commit(AppendElement(elements,
                  StickyElement(DateNow, TextOrEmpty(answer), x, y, currentLayer)))
    /\ UNCHANGED gestureVars
    /\ UNCHANGED layerVars
    /\ UNCHANGED envVars
    /\ Observe("commit")

MouseDownDraw(x, y) ==
    /\ mounted
    /\ tool \in {"pen", "eraser"} \cup SHAPES
    /\ isDrawing' = TRUE
    /\ currentElement' = IF tool \in {"pen", "eraser"}
                         THEN <<StrokeElement(tool, x, y, currentLayer)>>
                         ELSE <<ShapeElement(tool, x, y, currentLayer)>>
    /\ UNCHANGED <<tool, selectedElement, dragOffset, resizeHandle>>
    /\ UNCHANGED canvasVars
    /\ UNCHANGED layerVars
    /\ UNCHANGED envVars
    /\ Observe("other")

handleMouseDown(x, y, answer) ==
    \/ MouseDownSelect(x, y)
    \/ MouseDownText(x, y, answer)
    \/ MouseDownSticky(x, y, answer)
    \/ MouseDownDraw(x, y)

\* elements.find(el => el.id === selectedElement) is an image or a sticky note
SelectedIsTransformable ==
    LET found == SelectSeq(elements, LAMBDA el : "id" \in DOMAIN el /\ el.id = selectedElement)
    IN found # <<>> /\ found[1].type \in {"image", "sticky"}

MouseMoveSelect(x, y) ==
    /\ mounted
    /\ tool = "select" /\ isDrawing /\ selectedElement # 0
    /\ elements' = IF ~SelectedIsTransformable THEN elements
                   ELSE IF resizeHandle # 0
                   THEN ResizeSelected(elements, selectedElement, x, y)
                   ELSE MoveSelected(elements, selectedElement, x, y, dragOffset)
    /\ UNCHANGED <<history, historyStep>>
    /\ UNCHANGED gestureVars
    /\ UNCHANGED layerVars
    /\ UNCHANGED envVars
    /\ Observe("other")

MouseMoveDraw(x, y) ==
    /\ mounted
    /\ ~(tool = "select" /\ isDrawing /\ selectedElement # 0)
    /\ IF ~isDrawing \/ currentElement = <<>>
       THEN UNCHANGED currentElement
       ELSE IF tool \in {"pen", "eraser"}
       THEN /\ "points" \in DOMAIN currentElement[1] =>
                   Len(currentElement[1].points) < MaxPoints
            /\ currentElement' =
                   IF "points" \in DOMAIN currentElement[1]
                   THEN << [currentElement[1] EXCEPT !.points = Append(@, <<x, y>>)] >>
                   ELSE <<>>
       ELSE IF tool \in SHAPES
       THEN currentElement' = << With2(currentElement[1], "endX", x, "endY", y) >>
       ELSE UNCHANGED currentElement
    /\ UNCHANGED <<tool, isDrawing, selectedElement, dragOffset, resizeHandle>>
    /\ UNCHANGED canvasVars
    /\ UNCHANGED layerVars
    /\ UNCHANGED envVars
    /\ Observe("other")

handleMouseMove(x, y) ==
    \/ MouseMoveSelect(x, y)
    \/ MouseMoveDraw(x, y)

MouseUpSelect ==
    /\ mounted
    /\ tool = "select" /\ selectedElement # 0 /\ isDrawing
    /\ CanPush
    /\ isDrawing' = FALSE
    /\ resizeHandle' = 0
    /\ history' = PushHistory(history, historyStep, elements)
    /\ historyStep' = historyStep + 1
    /\ UNCHANGED <<elements, tool, currentElement, selectedElement, dragOffset>>
    /\ UNCHANGED layerVars
    /\ UNCHANGED envVars
    /\ Observe("other")

MouseUpCommit ==
    /\ mounted
    /\ ~(tool = "select" /\ selectedElement # 0 /\ isDrawing)
    /\ isDrawing /\ currentElement # <<>>
    /\ CanCommit
    /\ Commit(AppendElement(elements, currentElement[1]))
    /\ currentElement' = <<>>
    /\ isDrawing' = FALSE
    /\ UNCHANGED <<tool, selectedElement, dragOffset, resizeHandle>>
    /\ UNCHANGED layerVars
    /\ UNCHANGED envVars
    /\ Observe("commit")

MouseUpIdle ==
    /\ mounted
    /\ ~(tool = "select" /\ selectedElement # 0 /\ isDrawing)
    /\ ~(isDrawing /\ currentElement # <<>>)
    /\ UNCHANGED canvasVars
    /\ UNCHANGED gestureVars
    /\ UNCHANGED layerVars
    /\ UNCHANGED envVars
    /\ Observe("other")

handleMouseUp ==
    \/ MouseUpSelect
    \/ MouseUpCommit
    \/ MouseUpIdle

----------------------------------------------------------------------------
(* History Manager: handlers *)

handleUndo ==
    /\ mounted
    /\ IF historyStep > 0
       THEN /\ historyStep' = historyStep - 1
            /\ elements' = UndoTarget(history, historyStep)
       ELSE UNCHANGED <<historyStep, elements>>
    /\ UNCHANGED history
    /\ UNCHANGED gestureVars
    /\ UNCHANGED layerVars
    /\ UNCHANGED envVars
    /\ Observe("undo")

handleRedo ==
    /\ mounted
    /\ IF CanRedo(history, historyStep)
       THEN /\ historyStep' = historyStep + 1
            /\ elements' = RedoTarget(history, historyStep)
       ELSE UNCHANGED <<historyStep, elements>>
    /\ UNCHANGED history
    /\ UNCHANGED gestureVars
    /\ UNCHANGED layerVars
    /\ UNCHANGED envVars
    /\ Observe("redo")

handleClear(confirmed) ==
    /\ mounted
    /\ IF confirmed
       THEN /\ CanPush
            /\ Commit(<<>>)
       ELSE UNCHANGED canvasVars
    /\ UNCHANGED gestureVars
    /\ UNCHANGED layerVars
    /\ UNCHANGED envVars
    /\ Observe("other")

\* onChange of the file input: the callbacks close over this render
handleImageUpload(file) ==
    /\ mounted
    /\ IF file
       THEN /\ Len(imports) < MaxInFlight
            /\ imports' = Append(imports, [elements |-> elements, history |-> history,
                                           historyStep |-> historyStep,
                                           currentLayer |-> currentLayer])
       ELSE UNCHANGED imports
    /\ UNCHANGED <<mounted, peerWrites>>
    /\ UNCHANGED persistVars
    /\ UNCHANGED syncVars
    /\ UNCHANGED uiVars
    /\ Observe("other")

\* img.onload of the i-th import, for a raster of w x h pixels
imageImported(i, w, h) ==
    /\ mounted
    /\ i \in DOMAIN imports
    /\ Len(imports[i].elements) < MaxElements
    /\ Min(Len(imports[i].history), imports[i].historyStep + 1) < MaxHistory
    /\ LET from == imports[i]
           newElements == AppendElement(from.elements,
                              ImageElement(DateNow, w, h, from.currentLayer))
       IN  /\ elements' = newElements
           /\ history' = PushHistory(from.history, from.historyStep, newElements)
           /\ historyStep' = from.historyStep + 1
    /\ imports' = Without(imports, i)
    /\ UNCHANGED <<mounted, peerWrites>>
    /\ UNCHANGED persistVars
    /\ UNCHANGED syncVars
    /\ UNCHANGED gestureVars
    /\ UNCHANGED layerVars
    /\ Observe("other")

loadTemplate(confirmed) ==
    /\ mounted
    /\ IF confirmed
       THEN /\ elements' = TemplateElements(DateNow)
            /\ history' = <<TemplateElements(DateNow)>>
            /\ historyStep' = 0
       ELSE UNCHANGED canvasVars
    /\ UNCHANGED gestureVars
    /\ UNCHANGED layerVars
    /\ UNCHANGED envVars
    /\ Observe("other")

----------------------------------------------------------------------------
(* Layer Manager: handlers *)

addLayer ==
    /\ mounted
    /\ Len(layers) < MaxLayers
    /\ layers' = Append(layers, NewLayerName(Len(layers) + 1))
    /\ currentLayer' = Len(layers)
    /\ UNCHANGED canvasVars
    /\ UNCHANGED gestureVars
    /\ UNCHANGED envVars
    /\ Observe("layer")

deleteLayer(index) ==
    /\ mounted
    /\ IF IsLastLayer(layers)
       THEN UNCHANGED <<layers, currentLayer, elements>>
       ELSE /\ layers' = RemoveAt(layers, index)
            /\ currentLayer' = ActiveAfterDelete(currentLayer, RemoveAt(layers, index))
            /\ elements' = DropLayer(elements, index)
    /\ UNCHANGED <<history, historyStep>>
    /\ UNCHANGED gestureVars
    /\ UNCHANGED envVars
    /\ Observe("layer")

moveLayerUp(index) ==
    /\ mounted
    /\ IF index = 0
       THEN UNCHANGED <<layers, elements>>
       ELSE /\ layers' = SwapNames(layers, index, index - 1)
            /\ elements' = SwapTags(elements, index, index - 1)
    /\ UNCHANGED <<currentLayer, history, historyStep>>
    /\ UNCHANGED gestureVars
    /\ UNCHANGED envVars
    /\ Observe("layer")

moveLayerDown(index) ==
    /\ mounted
    /\ IF index = Len(layers) - 1
       THEN UNCHANGED <<layers, elements>>
       ELSE /\ layers' = SwapNames(layers, index, index + 1)
            /\ elements' = SwapTags(elements, index, index + 1)
    /\ UNCHANGED <<currentLayer, history, historyStep>>
    /\ UNCHANGED gestureVars
    /\ UNCHANGED envVars
    /\ Observe("layer")

renameLayer(index, newName) ==
    /\ mounted
    /\ layers' = [layers EXCEPT ![index + 1] = newName]
    /\ UNCHANGED currentLayer
    /\ UNCHANGED canvasVars
    /\ UNCHANGED gestureVars
    /\ UNCHANGED envVars
    /\ Observe("layer")

selectLayer(index) ==
    /\ mounted
    /\ currentLayer' = index
    /\ UNCHANGED layers
    /\ UNCHANGED canvasVars
    /\ UNCHANGED gestureVars
    /\ UNCHANGED envVars
    /\ Observe("layer")

----------------------------------------------------------------------------
(* Persistence Adapter: handlers, and the store's side of each request *)

\* onChange of the title input
setWhiteboardName(n) ==
    /\ mounted
    /\ whiteboardName' = n
    /\ UNCHANGED <<user, loads, writes, store>>
    /\ UNCHANGED syncVars
    /\ UNCHANGED uiVars
    /\ UNCHANGED tabVars
    /\ Observe("other")

\* useAuth() delivers another user; the load effect runs again for a user
authChange(u) ==
    /\ u # user
    /\ user' = u
    /\ IF mounted /\ routeId # 0 /\ u # 0
       THEN /\ Len(loads) < MaxInFlight
            /\ loads' = Append(loads, LoadSent)
       ELSE UNCHANGED loads
    /\ UNCHANGED <<whiteboardName, writes, store>>
    /\ UNCHANGED syncVars
    /\ UNCHANGED uiVars
    /\ UNCHANGED tabVars
    /\ Observe("other")

AutosaveDueIgnoringEmpty == routeId # 0 /\ user # 0

\* if (id && user && elements.length > 0)
AutosaveDue == routeId # 0 /\ user # 0 /\ Len(elements) > 0

\* saveWhiteboard: the update it sends, none without document id or user
saveWhiteboard ==
    IF routeId = 0 \/ user = 0 THEN writes
    ELSE Append(writes, SaveRequest(whiteboardName, elements))

\* the interval runs from the effect to its cleanup (clearInterval)
TimerArmed == mounted

\* the callback of the 10 s interval
autosaveTick ==
    /\ TimerArmed
    /\ IF AutosaveDue
       THEN /\ Len(writes) < MaxInFlight
            /\ writes' = saveWhiteboard
       ELSE UNCHANGED writes
    /\ UNCHANGED <<whiteboardName, user, loads, store>>
    /\ UNCHANGED syncVars
    /\ UNCHANGED uiVars
    /\ UNCHANGED tabVars
    /\ Observe("other")

\* the store answers the i-th update: applied to the record, or failed
storeUpdate(i, ok) ==
    /\ i \in DOMAIN writes
    /\ store' = IF ok THEN ApplyUpdate(store, writes[i]) ELSE store
    /\ writes' = Without(writes, i)
    /\ UNCHANGED <<whiteboardName, user, loads>>
    /\ UNCHANGED syncVars
    /\ UNCHANGED uiVars
    /\ UNCHANGED tabVars
    /\ Observe("other")

\* the store answers the i-th select: the record as it is now, or an error
storeSelect(i, ok) ==
    /\ i \in DOMAIN loads
    /\ loads[i] = LoadSent
    /\ loads' = [loads EXCEPT ![i] = IF ok THEN LoadData(store) ELSE LoadError]
    /\ UNCHANGED <<whiteboardName, user, writes, store>>
    /\ UNCHANGED syncVars
    /\ UNCHANGED uiVars
    /\ UNCHANGED tabVars
    /\ Observe("other")

\* the store answers the i-th select: no record of that id (maybeSingle)
storeSelectMissing(i) ==
    /\ i \in DOMAIN loads
    /\ loads[i] = LoadSent
    /\ loads' = [loads EXCEPT ![i] = LoadNone]
    /\ UNCHANGED <<whiteboardName, user, writes, store>>
    /\ UNCHANGED syncVars
    /\ UNCHANGED uiVars
    /\ UNCHANGED tabVars
    /\ Observe("other")

\* loadWhiteboard after its await: the answer of the i-th call is applied
loadWhiteboard(i) ==
    /\ mounted
    /\ i \in DOMAIN loads
    /\ loads[i] # LoadSent
    /\ loads' = Without(loads, i)
    /\ IF loads[i] \in {LoadError, LoadNone}
       THEN UNCHANGED <<whiteboardName, elements>>
       ELSE /\ whiteboardName' = loads[i][2].name
            /\ elements' = LoadedElements(loads[i][2], elements)
    /\ UNCHANGED <<history, historyStep>>
    /\ UNCHANGED <<user, writes, store>>
    /\ UNCHANGED syncVars
    /\ UNCHANGED gestureVars
    /\ UNCHANGED layerVars
    /\ UNCHANGED tabVars
    /\ Observe("other")

\* the page is left and the document opened again: the component is
\* unmounted (channel removed, pending answers dropped) and mounted anew
reload ==
    /\ mounted
    /\ tool' = "pen"
    /\ isDrawing' = FALSE
    /\ elements' = <<>>
    /\ currentElement' = <<>>
    /\ history' = <<>>
    /\ historyStep' = 0
    /\ selectedElement' = 0
    /\ dragOffset' = <<0, 0>>
    /\ resizeHandle' = 0
    /\ currentLayer' = 0
    /\ layers' = <<"Layer 1">>
    /\ whiteboardName' = InitialName
    /\ loads' = IF routeId # 0 /\ user # 0 THEN <<LoadSent>> ELSE <<>>
    /\ inbox' = <<>>
    /\ UNCHANGED <<user, writes, store, peerInbox, peerElements>>
    /\ imports' = <<>>
    /\ UNCHANGED <<mounted, peerWrites>>
    /\ trail' = TrailStart
    /\ branch' = "none"

\* the page is left: the effect cleanups run (clearInterval, removeChannel);
\* answers and events that arrive later find no component
unmount ==
    /\ mounted
    /\ mounted' = FALSE
    /\ loads' = <<>>
    /\ inbox' = <<>>
    /\ UNCHANGED <<whiteboardName, user, writes, store>>
    /\ imports' = <<>>
    /\ UNCHANGED <<peerInbox, peerElements, peerWrites>>
    /\ UNCHANGED uiVars
    /\ UNCHANGED obsVars

\* the document is opened again: useState initial values, load effect,
\* interval and subscription
mount ==
    /\ ~mounted
    /\ mounted' = TRUE
    /\ tool' = "pen"
    /\ isDrawing' = FALSE
    /\ elements' = <<>>
    /\ currentElement' = <<>>
    /\ history' = <<>>
    /\ historyStep' = 0
    /\ selectedElement' = 0
    /\ dragOffset' = <<0, 0>>
    /\ resizeHandle' = 0
    /\ currentLayer' = 0
    /\ layers' = <<"Layer 1">>
    /\ whiteboardName' = InitialName
    /\ loads' = IF routeId # 0 /\ user # 0 THEN <<LoadSent>> ELSE <<>>
    /\ inbox' = <<>>
    /\ UNCHANGED <<user, writes, store, peerInbox, peerElements, peerWrites, imports>>
    /\ trail' = TrailStart
    /\ branch' = "none"

----------------------------------------------------------------------------
(* Sync Bridge: the document topic and its two subscribers *)

\* an id minted by the clock of another client, none of this client's
RemoteId == 9

\* a stroke and a sticky note drawn by other participants
RemotePayloads ==
    { [type |-> "line", points |-> <<<<100, 100>>>>, color |-> InitialColor,
       strokeWidth |-> InitialStrokeWidth, layer |-> 0],
      StickyElement(RemoteId, "remote", 100, 100, 0) }

\* supabase.channel(...).on('broadcast', {event: 'draw'}, ...).subscribe()
\* until the cleanup's supabase.removeChannel(channel)
SubscribedForever == TRUE
Subscribed == mounted

\* another participant publishes a draw event on the topic
remotePublish(payload) ==
    /\ Len(inbox) < MaxInFlight /\ Len(peerInbox) < MaxInFlight
    /\ inbox' = IF Subscribed THEN Append(inbox, payload) ELSE inbox
    /\ peerInbox' = Append(peerInbox, payload)
    /\ UNCHANGED peerElements
    /\ UNCHANGED persistVars
    /\ UNCHANGED uiVars
    /\ UNCHANGED tabVars
    /\ Observe("other")

\* the draw event callback of this client
onBroadcastDraw ==
    /\ Subscribed
    /\ inbox # <<>>
    /\ Len(elements) < MaxElements
    /\ elements' = ApplyRemote(elements, Head(inbox))
    /\ inbox' = Tail(inbox)
    /\ UNCHANGED <<history, historyStep>>
    /\ UNCHANGED <<peerInbox, peerElements>>
    /\ UNCHANGED persistVars
    /\ UNCHANGED gestureVars
    /\ UNCHANGED layerVars
    /\ UNCHANGED tabVars
    /\ Observe("other")

\* the draw event callback of the other client
peerOnBroadcastDraw ==
    /\ peerInbox # <<>>
    /\ Len(peerElements) < MaxElements
    /\ peerElements' = ApplyRemote(peerElements, Head(peerInbox))
    /\ peerInbox' = Tail(peerInbox)
    /\ UNCHANGED inbox
    /\ UNCHANGED persistVars
    /\ UNCHANGED uiVars
    /\ UNCHANGED tabVars
    /\ Observe("other")

\* the interval callback of the other client, whose title reads n
peerAutosaveTick(n) ==
    /\ Len(peerElements) > 0
    /\ Len(peerWrites) < MaxInFlight
    /\ peerWrites' = Append(peerWrites, SaveRequest(n, peerElements))
    /\ UNCHANGED <<mounted, imports>>
    /\ UNCHANGED persistVars
    /\ UNCHANGED syncVars
    /\ UNCHANGED uiVars
    /\ Observe("other")

\* the store answers the i-th update of the other client
peerStoreUpdate(i, ok) ==
    /\ i \in DOMAIN peerWrites
    /\ store' = IF ok THEN ApplyUpdate(store, peerWrites[i]) ELSE store
    /\ peerWrites' = Without(peerWrites, i)
    /\ UNCHANGED <<mounted, imports>>
    /\ UNCHANGED <<whiteboardName, user, loads, writes>>
    /\ UNCHANGED syncVars
    /\ UNCHANGED uiVars
    /\ Observe("other")

----------------------------------------------------------------------------
(* The session: any handler may run next, with any input the page offers *)

LayerIndices == 0..(Len(layers) - 1)

Next ==
    \/ \E t \in ToolChoices : SetTool(t)
    \/ \E p \in Points, a \in PromptAnswers : handleMouseDown(p[1], p[2], a)
    \/ \E p \in Points : handleMouseMove(p[1], p[2])
    \/ handleMouseUp
    \/ handleUndo
    \/ handleRedo
    \/ \E c \in BOOLEAN : handleClear(c)
    \/ \E c \in BOOLEAN : loadTemplate(c)
    \/ \E f \in BOOLEAN : handleImageUpload(f)
    \/ \E k \in 1..MaxInFlight, z \in ImageSizes : imageImported(k, z[1], z[2])
    \/ addLayer
    \/ \E i \in LayerIndices : deleteLayer(i)
    \/ \E i \in LayerIndices : moveLayerUp(i)
    \/ \E i \in LayerIndices : moveLayerDown(i)
    \/ \E i \in LayerIndices, n \in LayerNames : renameLayer(i, n)
    \/ \E i \in LayerIndices : selectLayer(i)
    \/ \E n \in Titles : setWhiteboardName(n)
    \/ \E u \in Users : authChange(u)
    \/ autosaveTick
    \/ \E i \in 1..MaxInFlight, ok \in BOOLEAN : storeUpdate(i, ok)
    \/ \E i \in 1..MaxInFlight, ok \in BOOLEAN : storeSelect(i, ok)
    \/ \E i \in 1..MaxInFlight : loadWhiteboard(i)
    \/ \E i \in 1..MaxInFlight : storeSelectMissing(i)
    \/ reload
    \/ unmount
    \/ mount
    \/ \E m \in RemotePayloads : remotePublish(m)
    \/ onBroadcastDraw
    \/ peerOnBroadcastDraw
    \/ \E n \in Titles : peerAutosaveTick(n)
    \/ \E i \in 1..MaxInFlight, ok \in BOOLEAN : peerStoreUpdate(i, ok)

Spec == Init /\ [][Next]_vars

----------------------------------------------------------------------------
(* The session restricted to drawing and the History Manager: commits of   *)
(* the four drawing tools, undo, redo, clear and template loads.           *)

HistoryTools == {"pen", "rectangle", "text", "sticky"}
HistoryPoints == {<<100, 100>>}

NextHistory ==
    \/ \E t \in HistoryTools : SetTool(t)
    \/ \E p \in HistoryPoints, a \in PromptAnswers : MouseDownText(p[1], p[2], a)
    \/ \E p \in HistoryPoints, a \in PromptAnswers : MouseDownSticky(p[1], p[2], a)
    \/ \E p \in HistoryPoints : MouseDownDraw(p[1], p[2])
    \/ \E p \in HistoryPoints : MouseMoveDraw(p[1], p[2])
    \/ MouseUpCommit
    \/ MouseUpIdle
    \/ handleUndo
    \/ handleRedo
    \/ \E c \in BOOLEAN : handleClear(c)
    \/ \E c \in BOOLEAN : loadTemplate(c)

SpecHistory == Init /\ [][NextHistory]_vars

----------------------------------------------------------------------------
(* The session restricted to layer content: sticky notes placed on the     *)
(* active layer, and the layer operations that create, remove, reorder and *)
(* switch layers.                                                          *)

LayerTools == {"sticky"}
LayerPoints == {<<100, 100>>}

NextLayers ==
    \/ \E t \in LayerTools : SetTool(t)
    \/ \E p \in LayerPoints : MouseDownSticky(p[1], p[2], <<"note">>)
    \/ addLayer
    \/ \E i \in LayerIndices : deleteLayer(i)
    \/ \E i \in LayerIndices : moveLayerUp(i)
    \/ \E i \in LayerIndices : moveLayerDown(i)
    \/ \E i \in LayerIndices : selectLayer(i)

SpecLayers == Init /\ [][NextLayers]_vars

----------------------------------------------------------------------------
(* The session restricted to the layer menu, on a canvas filled from a     *)
(* template: every operation of the menu, in any order.                    *)

NextLayerList ==
    \/ \E c \in BOOLEAN : loadTemplate(c)
    \/ addLayer
    \/ \E i \in LayerIndices : deleteLayer(i)
    \/ \E i \in LayerIndices : moveLayerUp(i)
    \/ \E i \in LayerIndices : moveLayerDown(i)
    \/ \E i \in LayerIndices, n \in LayerNames : renameLayer(i, n)
    \/ \E i \in LayerIndices : selectLayer(i)

SpecLayerList == Init /\ [][NextLayerList]_vars

----------------------------------------------------------------------------
(* The session restricted to selection: sticky notes placed on the layers, *)
(* select gestures (grab, drag, resize, release) and layer switches.       *)

SelectTools == {"select", "sticky"}

NextSelect ==
    \/ \E t \in SelectTools : SetTool(t)
    \/ \E p \in Points : MouseDownSticky(p[1], p[2], <<"note">>)
    \/ \E p \in Points : MouseDownSelect(p[1], p[2])
    \/ \E p \in Points : MouseMoveSelect(p[1], p[2])
    \/ MouseUpSelect
    \/ MouseUpIdle

SpecSelect == Init /\ [][NextSelect]_vars

----------------------------------------------------------------------------
(* The session restricted to selection across layers: sticky notes placed  *)
(* at one point of several layers, select gestures at that point and at    *)
(* the notes' bottom-right corner, and layer switches.                     *)

IsolationPoints == {<<100, 100>>, <<300, 300>>}

NextIsolation ==
    \/ \E t \in SelectTools : SetTool(t)
    \/ \E p \in LayerPoints : MouseDownSticky(p[1], p[2], <<"note">>)
    \/ \E p \in IsolationPoints : MouseDownSelect(p[1], p[2])
    \/ \E p \in IsolationPoints : MouseMoveSelect(p[1], p[2])
    \/ MouseUpSelect
    \/ addLayer
    \/ \E i \in LayerIndices : selectLayer(i)

SpecIsolation == Init /\ [][NextIsolation]_vars

----------------------------------------------------------------------------
(* The session restricted to the Sync Bridge: local strokes and sticky     *)
(* notes, draw events published by other participants, and their delivery  *)
(* to this client and to the other client of the document.                 *)

SyncTools == {"pen", "sticky"}

NextSync ==
    \/ \E t \in SyncTools : SetTool(t)
    \/ \E p \in LayerPoints : MouseDownSticky(p[1], p[2], <<"note">>)
    \/ \E p \in LayerPoints : MouseDownDraw(p[1], p[2])
    \/ MouseUpCommit
    \/ \E m \in RemotePayloads : remotePublish(m)
    \/ onBroadcastDraw
    \/ peerOnBroadcastDraw

SpecSync == Init /\ [][NextSync]_vars

----------------------------------------------------------------------------
(* The session restricted to saving and loading: rectangles dragged out    *)
(* leftwards, the autosave timer, the store answering updates and selects, *)
(* and the document opened again.                                          *)

PersistTools == {"rectangle"}
DragPoints == {<<40, 160>>}

NextPersist ==
    \/ \E t \in PersistTools : SetTool(t)
    \/ \E p \in LayerPoints : MouseDownDraw(p[1], p[2])
    \/ \E p \in DragPoints : MouseMoveDraw(p[1], p[2])
    \/ MouseUpCommit
    \/ autosaveTick
    \/ \E i \in 1..MaxInFlight, ok \in BOOLEAN : storeUpdate(i, ok)
    \/ \E i \in 1..MaxInFlight, ok \in BOOLEAN : storeSelect(i, ok)
    \/ \E i \in 1..MaxInFlight : loadWhiteboard(i)
    \/ reload

SpecPersist == Init /\ [][NextPersist]_vars

----------------------------------------------------------------------------
(* The session restricted to the autosave timer: sticky notes, clearing,   *)
(* title edits, sign-out and sign-in, the timer and the store answering    *)
(* the updates.                                                            *)

NextAutosave ==
    \/ \E t \in LayerTools : SetTool(t)
    \/ \E p \in LayerPoints : MouseDownSticky(p[1], p[2], <<"note">>)
    \/ \E c \in BOOLEAN : handleClear(c)
    \/ \E n \in Titles : setWhiteboardName(n)
    \/ \E u \in Users : authChange(u)
    \/ autosaveTick
    \/ \E i \in 1..MaxInFlight, ok \in BOOLEAN : storeUpdate(i, ok)
    \/ \E i \in 1..MaxInFlight, ok \in BOOLEAN : storeSelect(i, ok)
    \/ \E i \in 1..MaxInFlight : storeSelectMissing(i)
    \/ \E i \in 1..MaxInFlight : loadWhiteboard(i)

SpecAutosave == Init /\ [][NextAutosave]_vars

----------------------------------------------------------------------------
(* The session restricted to the Tool Dispatcher: tool changes, sticky     *)
(* notes and pen strokes at one point, select pointer-downs on a note and  *)
(* on its resize handle, and pointer-ups.                                  *)
(* The canvas has no handler for the pointer leaving it: a pointer-down    *)
(* need not be followed by a pointer-up, nor a pointer-up preceded by a    *)
(* pointer-down.                                                           *)

DispatchTools == {"pen", "select", "sticky"}

NextDispatch ==
    \/ \E t \in DispatchTools : SetTool(t)
    \/ \E p \in LayerPoints : MouseDownSticky(p[1], p[2], <<"note">>)
    \/ \E p \in LayerPoints : MouseDownDraw(p[1], p[2])
    \/ \E p \in IsolationPoints : MouseDownSelect(p[1], p[2])
    \/ MouseUpSelect
    \/ MouseUpCommit
    \/ MouseUpIdle

SpecDispatch == Init /\ [][NextDispatch]_vars

----------------------------------------------------------------------------
(* The session restricted to what changes the element list: sticky notes,  *)
(* undo, redo, clear, template loads, and layers added and deleted.        *)

NextCanvas ==
    \/ \E t \in LayerTools : SetTool(t)
    \/ \E p \in LayerPoints : MouseDownSticky(p[1], p[2], <<"note">>)
    \/ handleUndo
    \/ handleRedo
    \/ \E c \in BOOLEAN : handleClear(c)
    \/ \E c \in BOOLEAN : loadTemplate(c)
    \/ addLayer
    \/ \E i \in LayerIndices : deleteLayer(i)

SpecCanvas == Init /\ [][NextCanvas]_vars

----------------------------------------------------------------------------
(* C1..C4: History Manager *)

\* C1: from the empty canvas and empty history, N commits followed by N
\* undos leave the canvas empty, and N redos after that bring back the
\* canvas of the N-th commit.
C1_UndoRedoInverse ==
    /\ (trail.phase = "undos" /\ trail.undos = trail.commits) => elements = <<>>
    /\ (trail.phase = "redos" /\ trail.redos = trail.commits) => elements = trail.final

\* C2: once the history is not empty, the cursor is an index of it.
C2_CursorValid ==
    history # <<>> => (0 <= historyStep /\ historyStep < Len(history))

\* a step of one of the committing handlers that added an element
CommitStep ==
    /\ Len(elements') = Len(elements) + 1
    /\ \/ \E p \in HistoryPoints, a \in PromptAnswers : MouseDownText(p[1], p[2], a)
       \/ \E p \in HistoryPoints, a \in PromptAnswers : MouseDownSticky(p[1], p[2], a)
       \/ MouseUpCommit

\* C3: right after a commit the history is the entries up to the previous
\* cursor plus the new snapshot, the cursor indexes that last entry and
\* history[historyStep] is the canvas; the first commit on the empty canvas
\* gives one snapshot, cursor 0 and one element.
C3_CommitShape ==
    [][CommitStep =>
        /\ history' = Append(SliceTo(history, historyStep + 1), elements')
        /\ historyStep' = Len(history') - 1
        /\ historyStep' + 1 \in DOMAIN history'
        /\ EntryOrEmpty(history', historyStep') = elements'
        /\ (elements = <<>> /\ history = <<>>) =>
              (Len(history') = 1 /\ historyStep' = 0 /\ Len(elements') = 1)]_vars

\* C4: after an undo that moved the cursor and then a commit, the snapshots
\* beyond the old cursor are gone and every redo that follows changes
\* neither the canvas, nor the history, nor the cursor.
C4_RedoAfterBranchIsNoOp ==
    [][/\ (branch = "undone" /\ branch' = "committed") =>
              /\ Len(history') = historyStep + 2
              /\ SubSeq(history', 1, historyStep + 1) = SubSeq(history, 1, historyStep + 1)
              /\ history'[Len(history')] = elements'
       /\ branch' = "redone" => UNCHANGED canvasVars]_vars

C4_Witness ==
    /\ branch = "redone"
    /\ Len(history) = MaxHistory
    /\ elements # <<>>

----------------------------------------------------------------------------
(* C5..C7: Layer Manager *)

\* C5: every element's layer tag is an index of the layer list.
C5_LayerTagsValid ==
    \A i \in 1..Len(elements) : LayerOf(elements[i]) \in 0..(Len(layers) - 1)

\* C6: the active layer pointer is an index of the layer list.
C6_ActiveLayerValid == currentLayer \in 0..(Len(layers) - 1)

\* the first layer was deleted while the second one was active
C6_Witness ==
    /\ layers = <<NewLayerName(2)>>
    /\ currentLayer = 0

\* after holds exactly the elements of before whose tag is not index, each
\* unchanged and at the rank it had among the kept ones
ExactlyDropped(before, after, index) ==
    LET keep == {k \in 1..Len(before) : LayerOf(before[k]) # index}
    IN /\ Len(after) = Cardinality(keep)
       /\ \A k \in keep : after[Cardinality({j \in keep : j <= k})] = before[k]

\* C7: deleteLayer(index) with more than one layer removes exactly the
\* elements tagged index; the others keep content, tag and relative order.
C7_DeleteLayerFrame ==
    [][\A i \in LayerIndices :
          (Len(layers) > 1 /\ deleteLayer(i)) => ExactlyDropped(elements, elements', i)]_vars

\* the first layer was deleted: a note of the other layer is still there,
\* the last snapshot holds more notes than the canvas
C7_Witness ==
    /\ layers = <<NewLayerName(2)>>
    /\ elements # <<>>
    /\ history # <<>>
    /\ Len(elements) < Len(history[Len(history)])
    /\ \A i \in 1..Len(elements) : LayerOf(elements[i]) = 1

----------------------------------------------------------------------------
(* C8..C10: Hit-Tester and selection *)

\* C8: a select pointer-down selects or grabs only an element of the active
\* layer, and the committed elements the renderer paints are exactly those
\* tagged with the active layer.
C8_LayerIsolation ==
    [][/\ \A p \in IsolationPoints :
            (MouseDownSelect(p[1], p[2]) /\ selectedElement' # 0) =>
                /\ \E k \in 1..Len(elements) : IdOf(elements[k]) = selectedElement'
                /\ \A k \in 1..Len(elements) :
                      IdOf(elements[k]) = selectedElement' =>
                          LayerOf(elements[k]) = currentLayer
                /\ resizeHandle' \in {resizeHandle, selectedElement'}
       /\ LET painted == VisibleElements(elements', currentLayer')
          IN /\ \A k \in 1..Len(painted) : LayerOf(painted[k]) = currentLayer'
             /\ Len(painted) =
                   Cardinality({k \in 1..Len(elements') : LayerOf(elements'[k]) = currentLayer'})]_vars

\* a note of the active layer is grabbed while a later note of another
\* layer lies at the same place
C8_Witness ==
    /\ tool = "select" /\ isDrawing /\ selectedElement # 0
    /\ \E i, j \in 1..Len(elements) :
          /\ i < j
          /\ IdOf(elements[i]) = selectedElement
          /\ LayerOf(elements[i]) = currentLayer
          /\ LayerOf(elements[j]) # currentLayer
          /\ elements[j].type = "sticky"
          /\ elements[j].x = elements[i].x /\ elements[j].y = elements[i].y

\* the point lies in the rectangle (x, y, width, height) of the element
InBounds(x, y, el) ==
    /\ x >= NumOr0(el, "x") /\ x <= NumOr0(el, "x") + NumOr0(el, "width")
    /\ y >= NumOr0(el, "y") /\ y <= NumOr0(el, "y") + NumOr0(el, "height")

\* C9: a select pointer-down on a point inside several image/sticky elements
\* of the active layer selects the last of them in canvas order.
C9_TopmostWins ==
    [][\A p \in Points :
          MouseDownSelect(p[1], p[2]) =>
              LET inside == {k \in 1..Len(elements) :
                                /\ elements[k].type \in {"image", "sticky"}
                                /\ LayerOf(elements[k]) = currentLayer
                                /\ InBounds(p[1], p[2], elements[k])}
              IN Cardinality(inside) >= 2 =>
                    selectedElement' = IdOf(elements[CHOOSE k \in inside : \A j \in inside : j <= k])]_vars

\* C10: every pointer-move of a resize gesture leaves the selected element
\* with width max(50, cursorX - x) and height max(50, cursorY - y).
C10_ResizeClamp ==
    [][\A p \in Points :
          (MouseMoveSelect(p[1], p[2]) /\ resizeHandle # 0 /\ SelectedIsTransformable) =>
              \A k \in 1..Len(elements) :
                  IdOf(elements[k]) = selectedElement =>
                      LET w == p[1] - NumOr0(elements[k], "x")
                          h == p[2] - NumOr0(elements[k], "y")
                      IN /\ elements'[k].width = (IF w < 50 THEN 50 ELSE w)
                         /\ elements'[k].height = (IF h < 50 THEN 50 ELSE h)
                         /\ elements'[k].width >= 50 /\ elements'[k].height >= 50]_vars

\* a resize gesture in progress has clamped the selected note to 50 x 50
C10_Witness ==
    /\ tool = "select" /\ isDrawing /\ resizeHandle # 0
    /\ \E k \in 1..Len(elements) :
          /\ IdOf(elements[k]) = selectedElement
          /\ elements[k].width = MinSize /\ elements[k].height = MinSize

----------------------------------------------------------------------------
(* C11, C19: Sync Bridge *)

\* C11: when this client commits a stroke, the stroke is published towards
\* the other client of the document, and every delivery there grows the
\* other client's canvas by exactly the delivered element, at the end, with
\* the elements it had before unchanged.
C11_CommitReachesPeer ==
    [][/\ (MouseUpCommit /\ currentElement[1].type = "line") =>
              peerInbox' = Append(peerInbox, currentElement[1])
       /\ peerOnBroadcastDraw =>
              /\ Len(peerElements') = Len(peerElements) + 1
              /\ peerElements'[Len(peerElements')] = Head(peerInbox)
              /\ SubSeq(peerElements', 1, Len(peerElements)) = peerElements]_vars

\* C19: every delivered draw event appends its payload to the canvas, after
\* the elements already there, whether or not an element with the payload's
\* id is present.
C19_NoDeduplication ==
    [][onBroadcastDraw =>
          /\ Len(elements') = Len(elements) + 1
          /\ elements'[Len(elements')] = Head(inbox)
          /\ SubSeq(elements', 1, Len(elements)) = elements]_vars

\* the same sticky note was delivered twice: two copies, one id
C19_Witness ==
    /\ Len(elements) = 2
    /\ elements[1] \in RemotePayloads
    /\ elements[1] = elements[2]
    /\ IdOf(elements[1]) # 0

----------------------------------------------------------------------------
(* C12, C20: Persistence Adapter *)

\* C12: when a load is answered with a record that a save wrote, the canvas
\* becomes the Canvas State that save was taken from: the same elements in
\* the same order, every field unchanged.
C12_RoundTrip ==
    [][\A i \in 1..MaxInFlight :
          (/\ loadWhiteboard(i)
           /\ loads[i] # LoadError
           /\ loads[i][2].canvas # <<>>) => elements' = loads[i][2].saved]_vars

\* a session opened after the save shows the saved canvas, whose rectangle
\* has a negative width
C12_Witness ==
    /\ history = <<>>
    /\ loads = <<>>
    /\ elements # <<>>
    /\ elements = store.saved
    /\ \E k \in 1..Len(elements) :
          /\ elements[k].type = "shape"
          /\ elements[k].endX < elements[k].startX
          /\ "layer" \in DOMAIN elements[k]

\* C20: a firing of the autosave timer sends one update holding the title
\* and the whole Canvas State of that moment when there is a document id, a
\* user and at least one element, and none otherwise; nothing else sends an
\* update; the store keeps an update it applies as it was sent.
C20_AutosaveWrites ==
    [][/\ autosaveTick =>
              IF routeId # 0 /\ user # 0 /\ Len(elements) > 0
              THEN writes' = Append(writes,
                       [name |-> whiteboardName,
                        canvas |-> <<JsonOfElements(elements)>>,
                        saved |-> elements])
              ELSE writes' = writes
       /\ Len(writes') > Len(writes) => autosaveTick
       /\ \A i \in 1..MaxInFlight : storeUpdate(i, TRUE) => store' = writes[i]]_vars

\* the store holds a canvas saved under the edited title, the user has
\* signed out since and the canvas was cleared
C20_Witness ==
    /\ store.name \in Titles
    /\ store.saved # <<>>
    /\ user = 0
    /\ elements = <<>>
    /\ writes = <<>>

----------------------------------------------------------------------------
(* C13..C15: Tool Dispatcher *)

\* C13: after every pointer-up no gesture is in progress, there is no
\* in-progress element and no grabbed resize handle; a pointer-up that ends
\* a gesture pushes exactly one snapshot of the canvas it leaves.
C13_IdleAfterPointerUp ==
    [][handleMouseUp =>
          /\ isDrawing' = FALSE
          /\ currentElement' = <<>>
          /\ resizeHandle' = 0
          /\ isDrawing =>
                /\ history' = Append(SliceTo(history, historyStep + 1), elements')
                /\ historyStep' = historyStep + 1]_vars

\* the point lies in the resize zone around the bottom-right corner
InHandleZone(x, y, el) ==
    /\ x >= NumOr0(el, "x") + NumOr0(el, "width") - HandleSize
    /\ x <= NumOr0(el, "x") + NumOr0(el, "width") + HandleSize
    /\ y >= NumOr0(el, "y") + NumOr0(el, "height") - HandleSize
    /\ y <= NumOr0(el, "y") + NumOr0(el, "height") + HandleSize

\* C14: a select pointer-down on the handle or body of an image or sticky
\* note of the active layer selects such an element, sets the drag offset to
\* the cursor minus its origin and starts a gesture; on a miss it clears the
\* selection and starts no gesture; a move of a move gesture puts the origin
\* at the cursor minus the offset; the selection is never a stroke, a shape
\* or a text.
C14_SelectPointerDown ==
    [][/\ \A p \in IsolationPoints :
            MouseDownSelect(p[1], p[2]) =>
                LET hit == {k \in 1..Len(elements) :
                               /\ elements[k].type \in {"image", "sticky"}
                               /\ LayerOf(elements[k]) = currentLayer
                               /\ \/ InBounds(p[1], p[2], elements[k])
                                  \/ InHandleZone(p[1], p[2], elements[k])}
                IN IF hit # {}
                   THEN /\ \E k \in hit :
                              /\ selectedElement' = IdOf(elements[k])
                              /\ dragOffset' = <<p[1] - NumOr0(elements[k], "x"),
                                                 p[2] - NumOr0(elements[k], "y")>>
                        /\ isDrawing'
                   ELSE /\ selectedElement' = 0
                        /\ isDrawing' = isDrawing
       /\ \A p \in IsolationPoints :
            (MouseMoveSelect(p[1], p[2]) /\ resizeHandle = 0 /\ SelectedIsTransformable) =>
                \A k \in 1..Len(elements) :
                    IdOf(elements[k]) = selectedElement =>
                        /\ elements'[k].x = p[1] - dragOffset[1]
                        /\ elements'[k].y = p[2] - dragOffset[2]
       /\ selectedElement' # 0 =>
            \A k \in 1..Len(elements') :
                IdOf(elements'[k]) = selectedElement' =>
                    elements'[k].type \in {"image", "sticky"}]_vars

\* C15: a text pointer-down whose prompt is cancelled or left empty changes
\* neither the canvas, nor the history, nor the cursor; a sticky pointer-down
\* appends exactly one sticky note, with an empty body when the prompt is
\* cancelled or empty, and pushes exactly one snapshot.
C15_PromptOutcome ==
    [][\A p \in HistoryPoints, a \in PromptAnswers :
          /\ (MouseDownText(p[1], p[2], a) /\ (a = <<>> \/ a = <<"">>)) =>
                UNCHANGED canvasVars
          /\ MouseDownSticky(p[1], p[2], a) =>
                /\ Len(elements') = Len(elements) + 1
                /\ SubSeq(elements', 1, Len(elements)) = elements
                /\ elements'[Len(elements')].type = "sticky"
                /\ elements'[Len(elements')].text =
                       (IF a = <<>> \/ a = <<"">> THEN "" ELSE a[1])
                /\ history' = Append(SliceTo(history, historyStep + 1), elements')
                /\ historyStep' = historyStep + 1]_vars

\* a sticky note with an empty body and a text are both on the canvas
C15_Witness ==
    \E i, j \in 1..Len(elements) :
        /\ elements[i].type = "sticky" /\ elements[i].text = ""
        /\ elements[j].type = "text" /\ elements[j].text # ""

----------------------------------------------------------------------------
(* C16, C17: Layer Manager *)

\* C16: deleteLayer with a single layer left changes neither the layer
\* list, nor the active layer, nor the canvas, nor the history.
C16_LastLayerKept ==
    [][\A i \in LayerIndices :
          (Len(layers) = 1 /\ deleteLayer(i)) =>
              /\ UNCHANGED <<layers, currentLayer>>
              /\ UNCHANGED canvasVars]_vars

\* a single layer is left, after a deletion, and it holds a note
C16_Witness ==
    /\ layers = <<NewLayerName(1)>>
    /\ \E k \in 1..Len(elements) : LayerOf(elements[k]) = 0
    /\ history # <<>>
    /\ Len(history[Len(history)]) > Len(elements)

\* layers[tag], undefined for a tag that is no index
NameOfLayer(ls, tag) == IF tag + 1 \in DOMAIN ls THEN ls[tag + 1] ELSE "undefined"

\* C17: moveLayerUp and moveLayerDown keep, for every element, the name of
\* the layer it is tagged with, the order of the elements and their other
\* fields; moving the first layer up or the last layer down changes nothing.
C17_MoveKeepsAssociation ==
    [][\A i \in LayerIndices :
          LET kept ==
                  /\ Len(elements') = Len(elements)
                  /\ \A k \in 1..Len(elements) :
                        /\ NameOfLayer(layers', LayerOf(elements'[k])) =
                               NameOfLayer(layers, LayerOf(elements[k]))
                        /\ \A f \in (DOMAIN elements[k] \cup DOMAIN elements'[k]) \ {"layer"} :
                              /\ f \in DOMAIN elements[k] /\ f \in DOMAIN elements'[k]
                              /\ elements'[k][f] = elements[k][f]
          IN /\ moveLayerUp(i) =>
                   /\ kept
                   /\ i = 0 => UNCHANGED <<layers, elements>>
             /\ moveLayerDown(i) =>
                   /\ kept
                   /\ i = Len(layers) - 1 => UNCHANGED <<layers, elements>>]_vars

\* the two layers were swapped while each held a note
C17_Witness ==
    /\ layers = <<NewLayerName(2), NewLayerName(1)>>
    /\ \E i, j \in 1..Len(elements) :
          /\ i < j
          /\ LayerOf(elements[i]) = 1
          /\ LayerOf(elements[j]) = 0

----------------------------------------------------------------------------
(* C18: order of the Canvas State *)

\* the same element, possibly moved, resized or re-tagged
SameElement(a, b) ==
    \A f \in (DOMAIN a \cup DOMAIN b) \ {"x", "y", "width", "height", "layer"} :
        f \in DOMAIN a /\ f \in DOMAIN b /\ a[f] = b[f]

\* the elements of before are the first elements of after, in their order
PrefixKept(before, after) ==
    /\ Len(after) >= Len(before)
    /\ \A k \in 1..Len(before) : SameElement(before[k], after[k])

----------------------------------------------------------------------------
(* The session restricted to the life of the component: notes, autosave,  *)
(* draw events of other participants, leaving the page and coming back.    *)

NextLifecycle ==
    \/ \E t \in LayerTools : SetTool(t)
    \/ \E p \in LayerPoints : MouseDownSticky(p[1], p[2], <<"note">>)
    \/ autosaveTick
    \/ \E i \in 1..MaxInFlight, ok \in BOOLEAN : storeUpdate(i, ok)
    \/ \E m \in RemotePayloads : remotePublish(m)
    \/ onBroadcastDraw
    \/ unmount
    \/ mount

SpecLifecycle == Init /\ [][NextLifecycle]_vars

----------------------------------------------------------------------------
(* Two sessions on one document: this client writes notes, both receive    *)
(* the draw events of other participants, and both autosave.               *)

NextShared ==
    \/ \E t \in LayerTools : SetTool(t)
    \/ \E p \in LayerPoints : MouseDownSticky(p[1], p[2], <<"note">>)
    \/ \E m \in RemotePayloads : remotePublish(m)
    \/ onBroadcastDraw
    \/ peerOnBroadcastDraw
    \/ autosaveTick
    \/ \E i \in 1..MaxInFlight, ok \in BOOLEAN : storeUpdate(i, ok)
    \/ \E n \in Titles : peerAutosaveTick(n)
    \/ \E i \in 1..MaxInFlight, ok \in BOOLEAN : peerStoreUpdate(i, ok)

SpecShared == Init /\ [][NextShared]_vars

----------------------------------------------------------------------------
(* The session restricted to what the renderer is given: notes, pen        *)
(* strokes in progress and imported images.                                *)

NextRender ==
    \/ \E t \in SyncTools : SetTool(t)
    \/ \E p \in LayerPoints : MouseDownSticky(p[1], p[2], <<"note">>)
    \/ \E p \in LayerPoints : MouseDownDraw(p[1], p[2])
    \/ MouseUpCommit
    \/ \E f \in BOOLEAN : handleImageUpload(f)
    \/ \E i \in 1..MaxInFlight, z \in ImageSizes : imageImported(i, z[1], z[2])

SpecRender == Init /\ [][NextRender]_vars

----------------------------------------------------------------------------
(* The session restricted to a shared canvas: notes of this client, draw   *)
(* events of other participants, undo, redo and the select gestures.       *)

NextCollab ==
    \/ \E t \in SelectTools : SetTool(t)
    \/ \E p \in LayerPoints : MouseDownSticky(p[1], p[2], <<"note">>)
    \/ \E m \in RemotePayloads : remotePublish(m)
    \/ onBroadcastDraw
    \/ peerOnBroadcastDraw
    \/ handleUndo
    \/ handleRedo
    \/ \E p \in IsolationPoints : MouseDownSelect(p[1], p[2])
    \/ \E p \in IsolationPoints : MouseMoveSelect(p[1], p[2])
    \/ MouseUpSelect

SpecCollab == Init /\ [][NextCollab]_vars

----------------------------------------------------------------------------
(* The session of a signed-in user on a document, with the timer and the   *)
(* store doing their part: the interval callback runs again and again, and *)
(* every update on its way is applied.  The user may stop at any time.     *)

NextEventual ==
    \/ \E t \in LayerTools : SetTool(t)
    \/ \E p \in LayerPoints : MouseDownSticky(p[1], p[2], <<"note">>)
    \/ \E c \in BOOLEAN : handleClear(c)
    \/ addLayer
    \/ \E i \in LayerIndices : deleteLayer(i)
    \/ autosaveTick
    \/ \E i \in 1..MaxInFlight : storeUpdate(i, TRUE)

SpecEventual ==
    /\ Init
    /\ [][NextEventual]_vars
    /\ WF_vars(autosaveTick)
    /\ \A i \in 1..MaxInFlight : WF_vars(storeUpdate(i, TRUE))

----------------------------------------------------------------------------
(* C21: when the answer to the document fetch is an error, no record, or a *)
(* record without canvas_data.elements, applying it changes neither Canvas *)
(* State nor history nor cursor, and the component stays mounted with its  *)
(* handlers: edits made before the answer are kept and later ones allowed. *)

NoElementsReply(reply) ==
    \/ reply \in {LoadError, LoadNone}
    \/ reply[1] = "data" /\ reply[2].canvas = <<>>

C21_LoadWithoutElements ==
    [][\A i \in 1..MaxInFlight :
          (loadWhiteboard(i) /\ NoElementsReply(loads[i]))
              => /\ UNCHANGED canvasVars
                 /\ UNCHANGED <<gestureVars, layerVars>>
                 /\ mounted']_vars

\* the fetch was answered without elements and the note written before the
\* answer is still on the canvas and in the history
C21_Witness ==
    /\ loads = <<>>
    /\ store = NewDocument
    /\ user # 0
    /\ Len(elements) = 1
    /\ history = <<elements>>
    /\ historyStep = 1

----------------------------------------------------------------------------
(* C22: while the component is unmounted no step starts a save (the queue  *)
(* of updates on their way never grows) and no step changes the Canvas     *)
(* State the session had, whatever draw events are published meanwhile.    *)

C22_QuietAfterUnmount ==
    [][~mounted =>
          /\ Len(writes') <= Len(writes)
          /\ ~mounted' => elements' = elements]_vars

\* unmounted with a canvas the timer would have saved, while a draw event
\* published since is on its way to the other client
C22_Witness ==
    /\ ~mounted
    /\ user # 0
    /\ Len(elements) = 1
    /\ writes = <<>>
    /\ peerInbox # <<>>
    /\ inbox = <<>>

----------------------------------------------------------------------------
(* C23: whenever an update of either session is applied, the record holds  *)
(* exactly the title and the Canvas State that session had when it saved:  *)
(* what the record held before, from the other session, is gone.           *)

C23_LastWriterWins ==
    [][\A i \in 1..MaxInFlight :
          /\ storeUpdate(i, TRUE) =>
                /\ store'.saved = writes[i].saved
                /\ store'.canvas = <<JsonOfElements(writes[i].saved)>>
                /\ store'.name = writes[i].name
          /\ peerStoreUpdate(i, TRUE) =>
                /\ store'.saved = peerWrites[i].saved
                /\ store'.canvas = <<JsonOfElements(peerWrites[i].saved)>>
                /\ store'.name = peerWrites[i].name]_vars

\* the update of this session has been applied, its note is in the record,
\* and an update of the other session, whose canvas lacks the note, is on
\* its way to overwrite it
C23_Witness ==
    /\ store.saved = elements
    /\ \E k \in DOMAIN store.saved :
          /\ store.saved[k].type = "sticky" /\ store.saved[k].text = "note"
          /\ peerWrites # <<>>
          /\ \A j \in DOMAIN peerWrites[1].saved :
                peerWrites[1].saved[j] # store.saved[k]

----------------------------------------------------------------------------
(* C24: in every order in which a redraw can paint, the painted elements   *)
(* of the active layer come in Canvas State order and the in-progress      *)
(* element comes last; images, painted when their raster has loaded, are   *)
(* no exception.                                                           *)

C24_PaintOrder ==
    \A order \in PaintOrders(elements, currentLayer, currentElement) :
        order = SelectSeq(PaintList(elements, currentLayer, currentElement), Painted)

----------------------------------------------------------------------------
(* C25: a confirmed clear is final.  Undo and redo show nothing but the    *)
(* snapshots of the history, and after the clear every one of them is in   *)
(* their reach (undo walks down to the first, redo up to the last), so the *)
(* claim is that the history the clear leaves behind holds no snapshot     *)
(* with an element the clear removed.                                      *)

C25_ClearIsFinal ==
    [][handleClear(TRUE) =>
          \A k \in DOMAIN history' : \A m \in DOMAIN history'[k] :
              \A j \in DOMAIN elements : history'[k][m] # elements[j]]_vars

----------------------------------------------------------------------------
(* C26: the draw callback leaves history and cursor as they are, and an    *)
(* element it appended (here: the note or the stroke of another            *)
(* participant, which no local tool of this session produces) is still in  *)
(* Canvas State after every local undo and redo.                           *)

IsRemote(el) == el \in RemotePayloads

Holds(els, el) == \E k \in DOMAIN els : els[k] = el

C26_RemoteSurvivesUndo ==
    [][/\ onBroadcastDraw => UNCHANGED <<history, historyStep>>
       /\ (handleUndo \/ handleRedo) =>
              \A k \in DOMAIN elements :
                  IsRemote(elements[k]) => Holds(elements', elements[k])]_vars

----------------------------------------------------------------------------
(* C27: a pointer-move of a drag or resize gesture keeps the number and    *)
(* the order of the elements and changes at most one of them, one that     *)
(* carries the selected id; this is claimed with received elements on the  *)
(* canvas as well.                                                         *)

ChangedBy(before, after) ==
    {k \in DOMAIN before : k \notin DOMAIN after \/ after[k] # before[k]}

C27_OneElementTransformed ==
    [][\A p \in IsolationPoints :
          MouseMoveSelect(p[1], p[2]) =>
              /\ Len(elements') = Len(elements)
              /\ Cardinality(ChangedBy(elements, elements')) <= 1
              /\ \A k \in ChangedBy(elements, elements') :
                     IdOf(elements[k]) = selectedElement]_vars

----------------------------------------------------------------------------
(* C28: when the answer to the load on mount is applied, every element     *)
(* that was in Canvas State just before (committed or received while the   *)
(* fetch was under way) is still in Canvas State.                          *)

C28_LoadKeepsEdits ==
    [][\A i \in 1..MaxInFlight :
          loadWhiteboard(i) =>
              \A k \in DOMAIN elements : Holds(elements', elements[k])]_vars

----------------------------------------------------------------------------
(* C29: whenever an element is selected, Canvas State holds an image or a  *)
(* sticky note with the selected id on the active layer.                   *)

C29_SelectionPresent ==
    selectedElement # 0 =>
        \E k \in DOMAIN elements :
            /\ IdOf(elements[k]) = selectedElement
            /\ elements[k].type \in {"image", "sticky"}
            /\ LayerOf(elements[k]) = currentLayer

----------------------------------------------------------------------------
(* C30: with document id and user present, a timer that keeps firing and   *)
(* updates that are all applied, either Canvas State keeps changing for    *)
(* ever or, from some point on, the record holds exactly the elements of   *)
(* Canvas State.                                                           *)

StoreCurrent == store.saved = elements

C30_EventuallyPersisted == <>[]StoreCurrent \/ []<><<TRUE>>_elements

====
